---- MODULE Spec2Model ----
(***************************************************************************)
(* ConfigManager (src/src/config_manager.py): JSON / XML / CSV readers and *)
(* writers, each write preceded by a timestamped backup of the file and a  *)
(* pruning of the backup directory.                                        *)
(*                                                                         *)
(* The file system is the state: the files at the paths the caller uses,   *)
(* the directory config-backups, and the clock that names the backups.     *)
(* Every public method is one action; `last` records what the most recent  *)
(* call did (the steps it took, whether it raised, what it returned).      *)
(***************************************************************************)
EXTENDS Integers, Sequences, FiniteSets, TLC

VARIABLES
    files,      \* path -> content of the file there (Absent: no file)
    dirExists,  \* whether the directory config-backups exists
    backups,    \* the entries of config-backups
    now,        \* the clock, in seconds
    last,       \* what the most recent call did
    calls       \* the calls made so far

vars == <<files, dirExists, backups, now, last, calls>>

(***************************************************************************)
(* Bounds of the model and constants of the program.                       *)
(***************************************************************************)
\* seconds of wall-clock time the model lets pass: timestamps 0 .. MaxTime
MaxTime == 5

\* calls a behaviour of Spec or FaultSpec makes
MaxCalls == 2

\* writes a behaviour of RunSpec makes
MaxWrites == 7

\* self._MAX_BACKUPS
MAX_BACKUPS == 5

(***************************************************************************)
(* Python values.  A scalar is a str, an int or None; a dict is the        *)
(* sequence of its items in insertion order (keys distinct); a list of     *)
(* dicts is a sequence of such sequences.                                  *)
(***************************************************************************)
PyStr(s) == [kind |-> "str", repr |-> s]

PyInt(s) == [kind |-> "int", repr |-> s]

None == [kind |-> "None", repr |-> ""]

Item(k, v) == [k |-> k, v |-> v]

Dict(items) == [type |-> "dict", body |-> items]

List(rows) == [type |-> "list", body |-> rows]

PyString(s) == [type |-> "str", body |-> <<>>]

Range(s) == {s[i] : i \in 1..Len(s)}

\* dict(pairs): a later pair with the same key replaces the value and keeps
\* the position of the first
RECURSIVE DictFromPairs(_)
DictFromPairs(pairs) ==
    IF pairs = <<>> THEN <<>>
    ELSE LET n == Len(pairs)
             init == DictFromPairs(SubSeq(pairs, 1, n - 1))
             p == pairs[n]
         IN IF \E i \in 1..Len(init) : init[i].k = p.k
            THEN [i \in 1..Len(init) |->
                    IF init[i].k = p.k THEN p ELSE init[i]]
            ELSE Append(init, p)

\* d1 == d2 on dicts: the same keys with the same values, in any order
DictEq(d1, d2) == Range(d1) = Range(d2)

\* l1 == l2 on lists of dicts
ListEq(l1, l2) ==
    /\ Len(l1) = Len(l2)
    /\ \A i \in 1..Len(l1) : DictEq(l1[i], l2[i])

(***************************************************************************)
(* File contents.  A file holds a document of one of the three formats, is *)
(* empty (zero bytes), or holds text that is none of the formats.          *)
(***************************************************************************)
Absent == [fmt |-> "absent", toks |-> <<>>]

EmptyFile == [fmt |-> "empty", toks |-> <<>>]

\* one line of text that is neither JSON nor XML
Garbage == [fmt |-> "garbage", toks |-> << <<"not a config">> >>]

Exists(c) == c.fmt # "absent"

----------------------------------------------------------------------------
(***************************************************************************)
(* JSON codec: json.dump / json.load.  A document is the sequence of its   *)
(* members; a member name is always a JSON string.                         *)
(***************************************************************************)
\* json.dump coerces a key that is an int or None to a string
JsonKey(k) == IF k.kind = "None" THEN "null" ELSE k.repr

JsonDump(items) ==
    [fmt |-> "json",
     toks |-> [i \in 1..Len(items) |->
                 [k |-> JsonKey(items[i].k), v |-> items[i].v]]]

JsonLoad(c) ==
    DictFromPairs([i \in 1..Len(c.toks) |->
                     Item(PyStr(c.toks[i].k), c.toks[i].v)])

(***************************************************************************)
(* XML codec: ElementTree.  A document is the root element "config" with   *)
(* one child per item; ElementTree writes an element whose text is falsy   *)
(* ("" or None) in the short form <tag />, and parses that form to text    *)
(* None.                                                                   *)
(***************************************************************************)
XmlElement(tag, text) ==
    IF text.kind = "None" \/ text.repr = ""
    THEN [k |-> tag.repr, v |-> [form |-> "short", text |-> ""]]
    ELSE [k |-> tag.repr, v |-> [form |-> "full", text |-> text.repr]]

XmlWrite(items) ==
    [fmt |-> "xml",
     toks |-> [i \in 1..Len(items) |-> XmlElement(items[i].k, items[i].v)]]

XmlText(el) == IF el.v.form = "short" THEN None ELSE PyStr(el.v.text)

\* {child.tag: child.text for child in root}
XmlParse(c) ==
    DictFromPairs([i \in 1..Len(c.toks) |->
                     Item(PyStr(c.toks[i].k), XmlText(c.toks[i]))])

(***************************************************************************)
(* CSV codec: csv.DictWriter / csv.DictReader.  A document is a sequence   *)
(* of lines, a line a sequence of cells.                                    *)
(***************************************************************************)
Keys(d) == [i \in 1..Len(d) |-> d[i].k]

Get(d, k, default) ==
    IF \E i \in 1..Len(d) : d[i].k = k
    THEN (CHOOSE it \in Range(d) : it.k = k).v
    ELSE default

\* DictWriter._dict_to_list: a key missing from the row is written as
\* restval "", a None value as ""
CsvRow(fieldnames, d) ==
    [i \in 1..Len(fieldnames) |-> Get(d, fieldnames[i], PyStr("")).repr]

\* extrasaction="raise": a row with a key outside fieldnames raises ValueError
CsvRowOk(fieldnames, d) == Range(Keys(d)) \subseteq Range(fieldnames)

\* writeheader, then writerows: the rows before the first one that raises
\* reach the file
RECURSIVE CsvRows(_, _)
CsvRows(fieldnames, rows) ==
    IF rows = <<>> \/ ~CsvRowOk(fieldnames, rows[1]) THEN <<>>
    ELSE <<CsvRow(fieldnames, rows[1])>> \o CsvRows(fieldnames, Tail(rows))

CsvWrite(rows) ==
    IF rows = <<>> THEN EmptyFile
    ELSE LET fieldnames == Keys(rows[1])
             header == [i \in 1..Len(fieldnames) |-> fieldnames[i].repr]
         IN [fmt |-> "csv", toks |-> <<header>> \o CsvRows(fieldnames, rows)]

\* csv.reader yields [] for a blank line and DictReader skips such rows; a
\* row of one empty cell is written "" and is not blank
NonBlank(lines) == SelectSeq(lines, LAMBDA l : l # <<>>)

\* dict(zip(fieldnames, row)); short rows are filled with restval None
CsvRecord(fieldnames, row) ==
    DictFromPairs([i \in 1..Len(fieldnames) |->
                     Item(PyStr(fieldnames[i]),
                          IF i <= Len(row) THEN PyStr(row[i]) ELSE None)])

\* the text of a file as csv.reader splits it.  ElementTree writes a
\* document on one line; with no comma in it, that line is one cell.
TextLines(c) ==
    CASE c.fmt = "csv" -> c.toks
      [] c.fmt = "empty" -> <<>>
      [] c.fmt = "garbage" -> c.toks
      [] c.fmt = "xml" -> << <<"<config>...</config>">> >>

DictReader(c) ==
    LET lines == NonBlank(TextLines(c))
    IN IF lines = <<>> THEN <<>>
       ELSE [i \in 1..(Len(lines) - 1) |-> CsvRecord(lines[1], lines[i + 1])]

----------------------------------------------------------------------------
(***************************************************************************)
(* Paths and names.  A file name is the sequence of its parts, so that     *)
(* str.startswith and str.endswith are prefix and suffix of sequences:     *)
(* "config.json" is <<"config", ".json">> and begins with "config".        *)
(***************************************************************************)
Path(dir, name) == [dir |-> dir, name |-> name]

\* os.path.basename
BaseName(p) == p.name

StartsWith(s, prefix) ==
    /\ Len(prefix) <= Len(s)
    /\ SubSeq(s, 1, Len(prefix)) = prefix

EndsWith(s, suffix) ==
    /\ Len(suffix) <= Len(s)
    /\ SubSeq(s, Len(s) - Len(suffix) + 1, Len(s)) = suffix

\* datetime.now().strftime("%Y-%m-%d_%H-%M-%S"): the clock cut to the second
Timestamp(t) == ToString(t)

\* f"{os.path.basename(file_path)}.{timestamp}.bak"
BackupName(p, t) == BaseName(p) \o <<".", Timestamp(t), ".bak">>

\* the original file name a backup entry was made from
OriginOf(e) == SubSeq(e.name, 1, Len(e.name) - 3)

EntriesOf(dir, base) == {e \in dir : OriginOf(e) = base}

(***************************************************************************)
(* _manage_backups.  The directory is a set of entries                     *)
(* [name, ctime, content].  min(backups, key=getctime) returns the first   *)
(* entry of least ctime in the order os.listdir gave, which is arbitrary:  *)
(* any entry of least ctime may be the one removed.                        *)
(***************************************************************************)
Listed(dir, file_name) ==
    {e \in dir : StartsWith(e.name, file_name) /\ EndsWith(e.name, <<".bak">>)}

Oldest(listed) == {e \in listed : \A f \in listed : e.ctime <= f.ctime}

\* a loop that stops one entry too early
RECURSIVE ManageBackupsOffByOne(_, _)
ManageBackupsOffByOne(dir, file_name) ==
    LET listed == Listed(dir, file_name)
    IN IF Cardinality(listed) > MAX_BACKUPS + 1
       THEN UNION {ManageBackupsOffByOne(dir \ {e}, file_name) :
                     e \in Oldest(listed)}
       ELSE {dir}

\* the directories the while loop may leave
RECURSIVE ManageBackups(_, _)
ManageBackups(dir, file_name) ==
    LET listed == Listed(dir, file_name)
    IN IF Cardinality(listed) > MAX_BACKUPS
       THEN UNION {ManageBackups(dir \ {e}, file_name) : e \in Oldest(listed)}
       ELSE {dir}

(***************************************************************************)
(* _backup_file.  `fault` names the one file-system call of this call that *)
(* fails ("none": all succeed).  The result is the set of outcomes         *)
(* [dirExists, backups, steps, raised]: the steps taken in order, and      *)
(* raised, TRUE when an exception leaves _backup_file.                     *)
(***************************************************************************)
Outcome(d, b, steps, raised) ==
    [dirExists |-> d, backups |-> b, steps |-> steps, raised |-> raised]

\* a copy taken once the file has been opened for writing
CopyTruncated(dir, name, content, t) ==
    {e \in dir : e.name # name}
        \cup {[name |-> name, ctime |-> t, content |-> EmptyFile]}

\* shutil.copy(file_path, backup_path): creates or overwrites the entry
Copy(dir, name, content, t) ==
    {e \in dir : e.name # name}
        \cup {[name |-> name, ctime |-> t, content |-> content]}

\* the pruning run before the copy instead of after it
ManageThenCopy(p, fault) ==
    {Outcome(TRUE, Copy(d, BackupName(p, now), files[p], now),
             <<"backup", "prune", "copy">>, FALSE) :
        d \in ManageBackups(backups, BaseName(p))}

\* lines 37-44: the copy and then the pruning, inside the try
CopyAndManage(p, fault) ==
    IF fault = "copy"
    THEN {Outcome(TRUE, backups, <<"backup", "copy_failed">>, FALSE)}
    ELSE LET copied == Copy(backups, BackupName(p, now), files[p], now)
         IN IF fault = "listdir"
               \/ (fault = "remove"
                   /\ Cardinality(Listed(copied, BaseName(p))) > MAX_BACKUPS)
            THEN {Outcome(TRUE, copied,
                          <<"backup", "copy", "prune_failed">>, FALSE)}
            ELSE {Outcome(TRUE, d, <<"backup", "copy", "prune">>, FALSE) :
                    d \in ManageBackups(copied, BaseName(p))}

BackupFile(p, fault) ==
    IF Exists(files[p])
    THEN IF ~dirExists /\ fault = "makedirs"
         THEN {Outcome(FALSE, backups, <<"backup", "makedirs_failed">>, TRUE)}
         ELSE CopyAndManage(p, fault)
    ELSE {Outcome(dirExists, backups, <<"backup">>, FALSE)}

----------------------------------------------------------------------------
(***************************************************************************)
(* The record of a call: the method, its path and argument, the file       *)
(* system call that failed in it, the exception that left it ("" when it   *)
(* returned), whether the path existed when it began, the steps it took in *)
(* order, the backup entries it deleted, and the value it returned.        *)
(***************************************************************************)
Result(kind, body) == [kind |-> kind, body |-> body]

NoResult == Result("none", <<>>)

NoData == [type |-> "none", body |-> <<>>]

Call(op, p, data, fault, raised, existed, steps, removed, result) ==
    [op |-> op, path |-> p, data |-> data, fault |-> fault,
     raised |-> raised, existed |-> existed, steps |-> steps,
     removed |-> removed, result |-> result]

WriteOps == {"write_json", "write_xml", "write_csv"}

ReadOps == {"read_json", "read_xml", "read_csv"}

\* the isinstance check that opens each write method
Expected(op) == IF op = "write_csv" THEN "list" ELSE "dict"

\* what the body of the try writes
Encode(op, data) ==
    CASE op = "write_json" -> JsonDump(data.body)
      [] op = "write_xml" -> XmlWrite(data.body)
      [] op = "write_csv" -> CsvWrite(data.body)

\* a write_csv that leaves the file alone when there is no row to write
WrittenUnlessEmpty(op, p, data) ==
    IF op = "write_csv" /\ data.body = <<>> THEN files[p] ELSE Encode(op, data)

\* the file at p once it has been opened with mode "w" (truncated) and the
\* body of the try has run
Written(op, p, data) == Encode(op, data)

Names(dir) == {e.name : e \in dir}

(***************************************************************************)
(* write_json / write_xml / write_csv: the type check, _backup_file, then  *)
(* the write inside a try that swallows every exception.  fault "open":    *)
(* opening the file for writing fails.                                     *)
(***************************************************************************)
\* lines 110-113: the call raises TypeError before anything else
Reject(op, p, data, fault) ==
    /\ last' = Call(op, p, data, fault, "TypeError", Exists(files[p]),
                    <<>>, {}, NoResult)
    /\ UNCHANGED <<files, dirExists, backups, now>>

\* the rest of the call once _backup_file has ended as `out`
Commit(op, p, data, fault, out) ==
    LET opened == ~out.raised /\ fault # "open"
        steps == IF out.raised THEN out.steps
                 ELSE Append(out.steps,
                             IF opened THEN "write" ELSE "write_failed")
        removed == {e \in backups : e.name \notin Names(out.backups)}
    IN /\ dirExists' = out.dirExists
       /\ backups' = out.backups
       /\ files' = IF opened
                   THEN [files EXCEPT ![p] = Written(op, p, data)]
                   ELSE files
       /\ last' = Call(op, p, data, fault,
                       IF out.raised THEN "OSError" ELSE "",
                       Exists(files[p]), steps, removed, NoResult)
       /\ UNCHANGED now

\* a write that checks the type of its argument only after the backup
WriteBackupFirst(op, p, data, fault) ==
    \E out \in BackupFile(p, fault) :
        IF data.type # Expected(op)
        THEN /\ dirExists' = out.dirExists
             /\ backups' = out.backups
             /\ last' = Call(op, p, data, fault, "TypeError",
                             Exists(files[p]), out.steps, {}, NoResult)
             /\ UNCHANGED <<files, now>>
        ELSE Commit(op, p, data, fault, out)

Write(op, p, data, fault) ==
    IF data.type # Expected(op)
    THEN Reject(op, p, data, fault)
    ELSE \E out \in BackupFile(p, fault) : Commit(op, p, data, fault, out)

write_json(p, data, fault) == Write("write_json", p, data, fault)

write_xml(p, data, fault) == Write("write_xml", p, data, fault)

write_csv(p, data, fault) == Write("write_csv", p, data, fault)

(***************************************************************************)
(* read_json / read_xml / read_csv.  fault "oserror": opening the file     *)
(* fails with an OSError other than FileNotFoundError (PermissionError,    *)
(* IsADirectoryError).                                                     *)
(***************************************************************************)
Read(op, p, fault, raised, result) ==
    /\ last' = Call(op, p, NoData, fault, raised, Exists(files[p]), <<>>, {},
                    result)
    /\ UNCHANGED <<files, dirExists, backups, now>>

EmptyDict == Result("dict", <<>>)

EmptyList == Result("list", <<>>)

\* except FileNotFoundError / except json.JSONDecodeError
read_json(p, fault) ==
    LET c == files[p]
    IN IF fault = "oserror" THEN Read("read_json", p, fault, "OSError", NoResult)
       ELSE IF ~Exists(c) THEN Read("read_json", p, fault, "", EmptyDict)
       ELSE IF c.fmt = "json"
            THEN Read("read_json", p, fault, "", Result("dict", JsonLoad(c)))
            ELSE Read("read_json", p, fault, "", EmptyDict)

\* except FileNotFoundError / except ET.ParseError
read_xml(p, fault) ==
    LET c == files[p]
    IN IF fault = "oserror" THEN Read("read_xml", p, fault, "OSError", NoResult)
       ELSE IF ~Exists(c) THEN Read("read_xml", p, fault, "", EmptyDict)
       ELSE IF c.fmt = "xml"
            THEN Read("read_xml", p, fault, "", Result("dict", XmlParse(c)))
            ELSE Read("read_xml", p, fault, "", EmptyDict)

\* except FileNotFoundError / except Exception
read_csv(p, fault) ==
    LET c == files[p]
    IN IF fault = "oserror" THEN Read("read_csv", p, fault, "", EmptyList)
       ELSE IF ~Exists(c) THEN Read("read_csv", p, fault, "", EmptyList)
       ELSE Read("read_csv", p, fault, "", Result("list", DictReader(c)))

\* a second of wall-clock time passes
Tick ==
    /\ now < MaxTime
    /\ now' = now + 1
    /\ UNCHANGED <<files, dirExists, backups, last>>

----------------------------------------------------------------------------
(***************************************************************************)
(* Inputs.  "config.json" and "etc/config.json" (one base name) are JSON   *)
(* files; "config", whose name begins theirs, is written as XML and as     *)
(* CSV.                                                                    *)
(***************************************************************************)
ConfigJson == Path("", <<"config", ".json">>)

EtcConfigJson == Path("etc", <<"config", ".json">>)

Config == Path("", <<"config">>)

Paths == {ConfigJson, EtcConfigJson, Config}

JsonPaths == {ConfigJson, EtcConfigJson}

TextPaths == {Config}

Invalid == PyString("Invalid data type")

Named(v) == <<Item(PyStr("name"), PyStr(v))>>

JsonData ==
    {Dict(Named("Test")), Dict(<<Item(PyInt("1"), PyStr("Test"))>>), Invalid}

XmlData == {Dict(<<>>), Dict(Named("Test")), Dict(Named("")), Invalid}

CsvData ==
    {List(<<>>), List(<<Named("Test"), Named("Example")>>), List(<< <<>> >>),
     Invalid}

WriteFaults == {"none", "makedirs", "copy", "listdir", "remove", "open"}

ReadFaults == {"none", "oserror"}

(***************************************************************************)
(* Initial file systems.                                                   *)
(***************************************************************************)
NoCall ==
    Call("init", Path("", <<>>), NoData, "none", "", FALSE, <<>>, {}, NoResult)

\* a new ConfigManager in a directory that holds no file and no backup
InitFresh ==
    /\ files = [p \in Paths |-> Absent]
    /\ dirExists = FALSE
    /\ backups = {}
    /\ now = 0
    /\ last = NoCall
    /\ calls = 0

\* the files exist, written by someone else, and are not well-formed
InitForeign ==
    /\ files = [p \in Paths |-> Garbage]
    /\ dirExists = FALSE
    /\ backups = {}
    /\ now = 0
    /\ last = NoCall
    /\ calls = 0

\* the directory after "config.json" was created and then written again in
\* each of the seconds 0 .. MAX_BACKUPS - 1, one second later: it holds
\* MAX_BACKUPS backups of it
InitSeasoned ==
    /\ files = [p \in Paths |->
                  IF p = ConfigJson THEN JsonDump(Named("Test")) ELSE Absent]
    /\ dirExists = TRUE
    /\ backups = {[name |-> BackupName(ConfigJson, t), ctime |-> t,
                   content |-> JsonDump(Named("Test"))] :
                    t \in 0..(MAX_BACKUPS - 1)}
    /\ now = MAX_BACKUPS
    /\ last = NoCall
    /\ calls = 0

Init == InitFresh \/ InitForeign \/ InitSeasoned

Counted == calls < MaxCalls /\ calls' = calls + 1

(***************************************************************************)
(* Spec: a few calls of any method within one second, on a file system     *)
(* whose calls all succeed.                                                *)
(***************************************************************************)
Next ==
    \/ \E p \in JsonPaths, d \in JsonData : write_json(p, d, "none") /\ Counted
    \/ \E p \in TextPaths, d \in XmlData : write_xml(p, d, "none") /\ Counted
    \/ \E p \in TextPaths, d \in CsvData : write_csv(p, d, "none") /\ Counted
    \/ \E p \in JsonPaths : read_json(p, "none") /\ Counted
    \/ \E p \in TextPaths : read_xml(p, "none") /\ Counted
    \/ \E p \in TextPaths : read_csv(p, "none") /\ Counted

Spec == Init /\ [][Next]_vars

(***************************************************************************)
(* FaultSpec: the same calls, any one file-system call of each failing.    *)
(***************************************************************************)
FaultNext ==
    \/ \E p \in JsonPaths, d \in JsonData, f \in WriteFaults :
          write_json(p, d, f) /\ Counted
    \/ \E p \in TextPaths, d \in XmlData, f \in WriteFaults :
          write_xml(p, d, f) /\ Counted
    \/ \E p \in TextPaths, d \in CsvData, f \in WriteFaults :
          write_csv(p, d, f) /\ Counted
    \/ \E p \in JsonPaths, f \in ReadFaults : read_json(p, f) /\ Counted
    \/ \E p \in TextPaths, f \in ReadFaults : read_xml(p, f) /\ Counted
    \/ \E p \in TextPaths, f \in ReadFaults : read_csv(p, f) /\ Counted

FaultSpec == Init /\ [][FaultNext]_vars

(***************************************************************************)
(* RetentionSpec: one caller writing for as long as the clock runs,        *)
(* starting from an empty backup store, on a file system whose calls all   *)
(* succeed.                                                                *)
(***************************************************************************)
RetentionNext ==
    \/ write_json(ConfigJson, Dict(Named("Test")), "none") /\ UNCHANGED calls
    \/ write_xml(Config, Dict(Named("Test")), "none") /\ UNCHANGED calls
    \/ write_csv(Config, List(<<Named("Test")>>), "none") /\ UNCHANGED calls
    \/ Tick /\ UNCHANGED calls

RetentionSpec == InitFresh /\ [][RetentionNext]_vars

(***************************************************************************)
(* RunSpec: MaxWrites writes in a row to one path, at any times.           *)
(***************************************************************************)
RunNext ==
    \/ /\ calls < MaxWrites
       /\ calls' = calls + 1
       /\ \E v \in {"Test", "Example"} :
             write_json(ConfigJson, Dict(Named(v)), "none")
    \/ Tick /\ UNCHANGED calls

RunSpec == InitFresh /\ [][RunNext]_vars

----------------------------------------------------------------------------
(***************************************************************************)
(* Properties.  A step that leaves the clock alone is a call, and last'    *)
(* describes it; `last` is then the call before it.                        *)
(***************************************************************************)
Has(steps, x) == \E i \in 1..Len(steps) : steps[i] = x

ValidWrite(c) == c.op \in WriteOps /\ c.raised # "TypeError"

\* C1: starting from an empty backup store, after any sequence of writes
\* the backup entries made from one original file name number at most
\* MAX_BACKUPS.
RetentionBound ==
    \A e \in backups :
        Cardinality(EntriesOf(backups, OriginOf(e))) <= MAX_BACKUPS

\* a write has just pruned "config.json" down to MAX_BACKUPS entries
RetentionPruned ==
    /\ last.path = ConfigJson
    /\ last.removed # {}
    /\ Cardinality(EntriesOf(backups, BaseName(ConfigJson))) = MAX_BACKUPS

\* C2: more than MAX_BACKUPS writes in a row to one path leave exactly
\* MAX_BACKUPS backups of it, and pruning removed only entries older than
\* those it kept, whatever the times of the writes.
RunLeavesNewestFive ==
    calls > MAX_BACKUPS =>
        /\ Cardinality(EntriesOf(backups, BaseName(ConfigJson))) = MAX_BACKUPS
        /\ \A r \in last.removed, e \in backups : r.ctime <= e.ctime

\* C3: a write whose argument has the wrong type raises TypeError and
\* leaves the file, the backup directory and its entries as they were.
WrongTypeNoEffect ==
    [][(/\ now' = now
        /\ last'.op \in WriteOps
        /\ last'.data.type # (IF last'.op = "write_csv" THEN "list" ELSE "dict"))
       => (/\ last'.raised = "TypeError"
           /\ UNCHANGED <<files, dirExists, backups>>)]_vars

\* a wrong-typed write to a file that exists, which a backup would have copied
WrongTypeOnExistingFile ==
    /\ last.op \in WriteOps
    /\ last.raised = "TypeError"
    /\ last.existed

EmptyCsvCall(c) == c.op = "write_csv" /\ c.data = List(<<>>)

\* C4 as stated: write_csv(p, []) does not raise and leaves the content, or
\* the absence, of p as it was.
EmptyCsvKeepsFile ==
    [][(now' = now /\ EmptyCsvCall(last'))
       => (/\ last'.raised = ""
           /\ files'[last'.path] = files[last'.path])]_vars

\* C4 as amended: write_csv(p, []) does not raise and leaves p an empty
\* file, created if it was absent and truncated if it held content; no
\* other file changes.
EmptyCsvTruncates ==
    [][(now' = now /\ EmptyCsvCall(last'))
       => (/\ last'.raised = ""
           /\ files'[last'.path] = EmptyFile
           /\ \A q \in Paths \ {last'.path} : files'[q] = files[q])]_vars

\* write_csv(p, []) on a file that held content, now backed up, and is empty
EmptyCsvOverContent ==
    /\ EmptyCsvCall(last)
    /\ last.existed
    /\ files[last.path] = EmptyFile
    /\ \E e \in backups :
          /\ e.name = BackupName(last.path, now)
          /\ e.content # EmptyFile

\* C5: a write to a path that exists leaves a backup entry named
\* {base}.{timestamp}.bak holding the content the file had before the
\* write; a write to a path that does not exist makes no backup entry and
\* still writes the file; the second of two writes in a row to a fresh path
\* leaves exactly one backup entry of it, holding what the first wrote.
BackupHoldsPriorContent ==
    [][(now' = now /\ ValidWrite(last') /\ last'.raised = "")
       => LET p == last'.path
              entry == [name |-> BackupName(p, now), ctime |-> now,
                        content |-> files[p]]
          IN /\ files'[p] = Encode(last'.op, last'.data)
             /\ Exists(files[p]) => entry \in backups'
             /\ ~Exists(files[p]) => backups' = backups
             /\ (/\ ValidWrite(last)
                 /\ last.path = p
                 /\ ~last.existed
                 /\ EntriesOf(backups, BaseName(p)) = {})
                => EntriesOf(backups', BaseName(p)) = {entry}]_vars

\* a write has backed up content that differs from what it then wrote,
\* and pruned in the same call
BackupOfOlderContent ==
    /\ ValidWrite(last)
    /\ last.existed
    /\ last.removed # {}
    /\ \E e \in backups :
          /\ e.name = BackupName(last.path, now)
          /\ e.content # files[last.path]

ReaderOf(op) ==
    CASE op = "write_json" -> "read_json"
      [] op = "write_xml" -> "read_xml"
      [] op = "write_csv" -> "read_csv"

AllStr(d) == \A i \in 1..Len(d) : d[i].k.kind = "str" /\ d[i].v.kind = "str"

\* a mapping with string keys for JSON and XML; rows of string mappings
\* with the keys of the first row for CSV
ValidFor(op, data) ==
    IF op = "write_csv"
    THEN \A i \in 1..Len(data.body) :
            /\ AllStr(data.body[i])
            /\ Range(Keys(data.body[i])) = Range(Keys(data.body[1]))
    ELSE AllStr(data.body)

SameValue(op, got, given) ==
    IF op = "write_csv" THEN ListEq(got, given) ELSE DictEq(got, given)

\* C6: for each format, reading a path back right after writing a valid
\* value to it returns a value equal to the one written.
RoundTrip ==
    [][(/\ now' = now
        /\ ValidWrite(last)
        /\ ValidFor(last.op, last.data)
        /\ last'.op = ReaderOf(last.op)
        /\ last'.path = last.path)
       => (/\ last'.raised = ""
           /\ SameValue(last.op, last'.result.body, last.data.body))]_vars

\* C7: no read raises; when the path is absent or cannot be opened the
\* result is empty.
ReadsNeverRaise ==
    last.op \in ReadOps =>
        /\ last.raised = ""
        /\ (~last.existed \/ last.fault # "none") => last.result.body = <<>>

BackupStepFailed(c) ==
    \/ Has(c.steps, "makedirs_failed")
    \/ Has(c.steps, "copy_failed")
    \/ Has(c.steps, "prune_failed")

\* C8: when a step of the backup phase of a valid write fails, the call
\* does not raise and the new content is written to the path.
BackupFailureSwallowed ==
    (ValidWrite(last) /\ BackupStepFailed(last)) =>
        /\ last.raised = ""
        /\ files[last.path] = Encode(last.op, last.data)

Before(steps, x, y) ==
    \E i, j \in 1..Len(steps) : i < j /\ steps[i] = x /\ steps[j] = y

\* C9 as stated: every valid write whose file-system calls succeed runs the
\* backup step, then the prune step, and only then writes the content.
BackupPruneWrite ==
    (ValidWrite(last) /\ last.fault = "none") =>
        /\ Before(last.steps, "backup", "prune")
        /\ Before(last.steps, "prune", "write")

\* C9 as amended: every valid write runs the backup step first; the prune
\* step runs only when the path existed, directly after the copy, and does
\* run when the path existed and the copy and the listing succeeded; the
\* content is written last, and a write to an absent path skips the copy
\* and the prune.
StepOrder ==
    ValidWrite(last) =>
        LET steps == last.steps
        IN /\ steps # <<>> /\ steps[1] = "backup"
           /\ \A i \in 1..Len(steps) :
                 /\ steps[i] = "copy" => last.existed
                 /\ steps[i] = "prune" =>
                       last.existed /\ i > 1 /\ steps[i - 1] = "copy"
                 /\ steps[i] = "write" => i = Len(steps)
           /\ (last.existed /\ last.fault \in {"none", "open"}) =>
                 Has(steps, "prune")
           /\ ~last.existed =>
                 steps \in {<<"backup", "write">>, <<"backup", "write_failed">>}

\* a write that copied, pruned an entry away and then wrote
PrunedThenWrote ==
    /\ ValidWrite(last)
    /\ last.steps = <<"backup", "copy", "prune", "write">>
    /\ last.removed # {}

\* C10: a write to p deletes only backup entries made from a file whose
\* base name is that of p (stated for the deletions that no tie of creation
\* times decides: the entry deleted was the only one of its ctime).
PrunesOwnBaseOnly ==
    \A e \in last.removed :
        (\A f \in backups : f.ctime # e.ctime)
            => OriginOf(e) = BaseName(last.path)

====
